---- MODULE Spec2Model ----
(***************************************************************************)
(* Model of the WordPress -> Strapi migration script:                      *)
(*   - ImageCacheManager          (lib/image-cache.js)                     *)
(*   - htmlToMarkdown / processMarkdownImages (lib/html-to-markdown.js)    *)
(*   - normalizeUrl, getFilename, normalizeFilename, downloadAndUploadFile *)
(*     (lib/utils.js)                                                      *)
(*   - importWPData               (lib/import-wp-data.js)                  *)
(*                                                                         *)
(* Text is modelled as a sequence of tokens: every token is a piece of the *)
(* string that the regular expressions of the code treat as a whole (a     *)
(* slash, a path segment, a "-300x200" dimension suffix, an extension, a   *)
(* query string).  The string functions below work on these sequences the  *)
(* way the code works on characters.                                       *)
(***************************************************************************)
EXTENDS Integers, Sequences, FiniteSets, TLC

(***************************************************************************)
(* Bounds of the model.                                                    *)
(***************************************************************************)
\* Largest number of posts handed to importWPData in one call.
MaxPosts == 2
\* Largest number of image references in the posts of one call, taken together.
MaxImages == 3
\* Largest number of successive htmlToMarkdown calls of the sequential runs.
MaxCalls == 2
\* Largest number of pieces (spans, links, literal text) of an inline text.
MaxSegments == 3
\* Largest number of blocks of a Markdown document.
MaxBlocks == 3

(***************************************************************************)
(* Token classes of the regular expressions in normalizeUrl,               *)
(* normalizeFilename and getFilename.                                      *)
(***************************************************************************)
\* A token that starts with "?" or "#": split(/[?#]/) cuts in front of it.
QueryOrHashTokens == {"?v=2", "#top"}
\* (quality|width|height)
SizeParamNames == {"quality", "width", "height"}
\* \d+
DigitTokens == {"80"}
\* [-_]\d+x\d+
DimensionTokens == {"-300x200", "_300x200"}
\* (small|medium|large|thumbnail)
SizeTierNames == {"small", "medium", "large", "thumbnail"}
\* \.[^/.]+ at the end of a file name
ExtensionTokens == {".jpg", ".png"}

\* F(x) with the argument evaluated first, once, as JavaScript evaluates the
\* receiver of a method call before the call.
Call(F(_), x) == CHOOSE r \in { F(v) : v \in {x} } : TRUE

\* String.prototype.toLowerCase on one token.
LowerToken(t) ==
  CASE t = "IMG" -> "img"
    [] t = "LARGE" -> "large"
    [] OTHER -> t

toLowerCase(s) == [i \in 1..Len(s) |-> LowerToken(s[i])]

\* url.split(/[?#]/)[0]: everything in front of the first "?" or "#".
RECURSIVE SplitQueryHash(_)
SplitQueryHash(s) ==
  IF s = <<>> \/ Head(s) \in QueryOrHashTokens
  THEN <<>>
  ELSE <<Head(s)>> \o SplitQueryHash(Tail(s))

\* .replace(/\/(quality|width|height)\/\d+\//g, '/'): matches are found left to
\* right in the input, do not overlap, and the replacement is not scanned again.
RECURSIVE RemoveSizeParams(_)
RemoveSizeParams(s) ==
  IF s = <<>> THEN <<>>
  ELSE IF /\ Len(s) >= 5
          /\ s[1] = "/" /\ s[2] \in SizeParamNames /\ s[3] = "/"
          /\ s[4] \in DigitTokens /\ s[5] = "/"
       THEN <<"/">> \o RemoveSizeParams(SubSeq(s, 6, Len(s)))
       ELSE <<Head(s)>> \o RemoveSizeParams(Tail(s))

\* .replace(/[-_]\d+x\d+/g, '')
RemoveDimensions(s) == SelectSeq(s, LAMBDA t : t \notin DimensionTokens)

\* .replace(/\/(small|medium|large|thumbnail)\//g, '/')
RECURSIVE RemoveSizeTiers(_)
RemoveSizeTiers(s) ==
  IF s = <<>> THEN <<>>
  ELSE IF /\ Len(s) >= 3
          /\ s[1] = "/" /\ s[2] \in SizeTierNames /\ s[3] = "/"
       THEN <<"/">> \o RemoveSizeTiers(SubSeq(s, 4, Len(s)))
       ELSE <<Head(s)>> \o RemoveSizeTiers(Tail(s))

\* .replace(/\/{2,}/g, '/'): a run of slashes becomes one slash.
RECURSIVE CollapseSlashes(_)
CollapseSlashes(s) ==
  IF s = <<>> THEN <<>>
  ELSE IF Len(s) >= 2 /\ s[1] = "/" /\ s[2] = "/"
       THEN CollapseSlashes(Tail(s))
       ELSE <<Head(s)>> \o CollapseSlashes(Tail(s))

\* A plausible slip in normalizeUrl: the query string and fragment are kept.
normalizeUrlKeepsQuery(url) ==
  Call(CollapseSlashes, Call(RemoveSizeTiers, Call(RemoveDimensions,
    Call(RemoveSizeParams, Call(toLowerCase, url)))))

\* normalizeUrl(url)
normalizeUrl(url) ==
  Call(CollapseSlashes, Call(RemoveSizeTiers, Call(RemoveDimensions,
    Call(RemoveSizeParams, Call(toLowerCase, Call(SplitQueryHash, url))))))

\* s.split(sep).pop(): what follows the last separator token.
RECURSIVE AfterLast(_, _)
AfterLast(s, sep) ==
  IF \E i \in 1..Len(s) : s[i] = sep
  THEN AfterLast(Tail(s), sep)
  ELSE s

\* getFilename(url) = url.split('/').pop().split('#')[0].split('?')[0]
getFilename(url) ==
  Call(SplitQueryHash, Call(LAMBDA u : AfterLast(u, "/"), url))

\* .replace(/[_-]/g, '') on one token.
StripSeparators(t) ==
  CASE t = "my-pic" -> "mypic"
    [] t = "my_pic" -> "mypic"
    [] t = "-300x200" -> "300x200"
    [] t = "_300x200" -> "300x200"
    [] OTHER -> t

\* .replace(/\.[^/.]+$/, ''): a trailing extension is dropped.
RemoveExtension(s) ==
  IF s # <<>> /\ s[Len(s)] \in ExtensionTokens
  THEN SubSeq(s, 1, Len(s) - 1)
  ELSE s

\* normalizeFilename(filename)
normalizeFilename(filename) ==
  Call(RemoveExtension,
       Call(LAMBDA f : [i \in 1..Len(f) |-> StripSeparators(LowerToken(f[i]))], filename))

(***************************************************************************)
(* Configuration and values.                                               *)
(***************************************************************************)
\* CONFIG.API.BASE_URL
BASE_URL == "http://localhost:1337"

\* The JavaScript value undefined (Map.prototype.get of an absent key).
undefined == [type |-> "undefined"]

(***************************************************************************)
(* Map, and the ImageCacheManager singleton built on it.                   *)
(***************************************************************************)
\* new Map()
NewMap == <<>>

\* Map.prototype.has
MapHas(m, k) == k \in DOMAIN m

\* Map.prototype.get
MapGet(m, k) == IF k \in DOMAIN m THEN m[k] ELSE undefined

\* A plausible slip in set: the store is rebuilt, the other entries are lost.
MapSetForgetsOthers(m, k, v) == [x \in {k} |-> v]

\* Map.prototype.set, as used by set(key, value) { this._store.set(key, value) }
MapSet(m, k, v) == [x \in (DOMAIN m) \cup {k} |-> IF x = k THEN v ELSE m[x]]

\* createInstance(): an object with a fresh _store
createInstance == NewMap

\* A plausible slip in getInstance: the `if (!instance)` test is missing, so
\* every call builds a new instance.
getInstanceAlwaysNew(inst, sts) ==
  [instance |-> Len(sts) + 1, stores |-> Append(sts, createInstance)]

\* ImageCacheManager.getInstance(): `inst` is the closure variable `instance`
\* (0 stands for undefined), `sts` the _store of every instance built so far.
\* Returns the new closure variable and stores; .instance is the handle returned.
getInstance(inst, sts) ==
  IF inst = 0
  THEN [instance |-> Len(sts) + 1, stores |-> Append(sts, createInstance)]
  ELSE [instance |-> inst, stores |-> sts]

(***************************************************************************)
(* Markdown text.  A Markdown text is the sequence of its image references *)
(* (the text between them is never read or written by the image pipeline). *)
(* A reference ![alt](url "title") is [alt, url, title]; title "" is no     *)
(* title.                                                                  *)
(***************************************************************************)
\* A plausible slip: the title is not written.
createMarkdownImageNoTitle(filename, url, title) ==
  [alt |-> filename, url |-> url, title |-> ""]

\* createMarkdownImage(filename, url, title = "")
createMarkdownImage(filename, url, title) ==
  [alt |-> filename, url |-> url, title |-> title]

\* The imageParser rule of turndown: ![${alt || "image"}](${src} "title")
ImageRule(img) ==
  [alt |-> IF img.alt = <<>> THEN <<"image">> ELSE img.alt,
   url |-> img.src, title |-> img.title]

\* turndownService.turndown(html), restricted to the images of the document
turndown(html) == [i \in 1..Len(html) |-> ImageRule(html[i])]

\* Array.from(markdown.matchAll(imageRegex)): the references, left to right
matchAll(markdown) == markdown

\* A plausible slip in the replacement: every occurrence is replaced.
ReplaceAll(text, fullMatch, replacement) ==
  [i \in 1..Len(text) |-> IF text[i] = fullMatch THEN replacement ELSE text[i]]

\* result.replace(fullMatch, replacement): String.prototype.replace with a string
\* pattern replaces the FIRST occurrence of fullMatch in the text.
replace(text, fullMatch, replacement) ==
  IF \E i \in 1..Len(text) : text[i] = fullMatch
  THEN LET first == CHOOSE i \in 1..Len(text) :
                      /\ text[i] = fullMatch
                      /\ \A j \in 1..(i - 1) : text[j] # fullMatch
       IN [text EXCEPT ![first] = replacement]
  ELSE text

\* A destination (rehosted) URL starts with the destination base URL.
IsDestinationUrl(url) == url # <<>> /\ url[1] = BASE_URL

(***************************************************************************)
(* Inputs: source image URLs and posts.                                    *)
(***************************************************************************)
\* https://x.com/img-300x200.jpg?v=2
UrlSized == <<"https:", "/", "/", "x.com", "/", "img", "-300x200", ".jpg", "?v=2">>
\* https://x.com/img.jpg
UrlPlain == <<"https:", "/", "/", "x.com", "/", "img", ".jpg">>
\* https://x.com/large/IMG.jpg
UrlTier == <<"https:", "/", "/", "x.com", "/", "large", "/", "IMG", ".jpg">>
\* https://y.org/b/my_pic.png : another key than UrlPic, the same normalized file name
UrlPic2 == <<"https:", "/", "/", "y.org", "/", "b", "/", "my_pic", ".png">>
\* https://y.org/quality/80/my-pic.jpg#top
UrlPic == <<"https:", "/", "/", "y.org", "/", "quality", "/", "80", "/", "my-pic", ".jpg", "#top">>
\* https://y.org/dir/ : no file name after the last slash
UrlDir == <<"https:", "/", "/", "y.org", "/", "dir", "/">>

\* An <img src alt title> element of a post's HTML.
Img(src, alt, title) == [src |-> src, alt |-> alt, title |-> title]

\* entity.content.rendered of a post: valid is FALSE for a value that is not a
\* non-empty string; otherwise imgs lists the <img> elements of the HTML.
Html(imgs) == [valid |-> TRUE, imgs |-> imgs]
InvalidHtml == [valid |-> FALSE, imgs |-> <<>>]

\* The posts the model draws `data` from.
Posts ==
  { InvalidHtml,
    Html(<<>>),
    Html(<<Img(UrlSized, <<>>, "")>>),
    Html(<<Img(UrlPlain, <<>>, ""), Img(UrlPlain, <<>>, "")>>),
    Html(<<Img(UrlPic, <<"photo">>, "t"), Img(UrlPic2, <<>>, "t")>>),
    Html(<<Img(UrlTier, <<>>, ""), Img(UrlDir, <<>>, "")>>) }

\* The answers of the network to one request.
DownloadAnswers == {"ok", "error"}
\* ok: [{url, name}] with the name that was sent; renamed: the server chose
\* another name; malformed: url or name is missing; error: non-2xx or no answer.
UploadAnswers == {"ok", "renamed", "malformed", "error"}
SubmitAnswers == {"ok", "error"}

(***************************************************************************)
(* Inline formatting: isValidUrl, processLinkMatch and                     *)
(* parseInlineParagraphFormatting (lib/utils.js).  A text is a sequence of *)
(* tokens: a delimiter character ("*", "_", "~", "[", "]", "(", ")"), a    *)
(* tag ("<u>", "</u>"), a line break or a run of other characters.         *)
(***************************************************************************)
\* The strings of a sequence, put one after the other.
RECURSIVE Flatten(_)
Flatten(ss) == IF ss = <<>> THEN <<>> ELSE Head(ss) \o Flatten(Tail(ss))

\* The strings that `new URL(string)` parses without a base.
WellFormedUrls == {"https://a.b", "mailto:a@b.c"}

\* isValidUrl(string): new URL(string) does not throw.
isValidUrl(string) == Len(string) = 1 /\ string[1] \in WellFormedUrls

\* A text node { type: "text", text, [key]: true }; style "plain": no key.
TextNode(text, style) == [type |-> "text", text |-> text, style |-> style]

\* A plausible slip in processLinkMatch: the target is not validated.
processLinkMatchUnchecked(match) ==
  [type |-> "link", url |-> match[3], children |-> <<TextNode(match[2], "plain")>>]

\* processLinkMatch(match); match[1] is the whole match (match[0] of the code),
\* match[2] the link text, match[3] the target.
processLinkMatch(match) ==
  IF ~isValidUrl(match[3])
  THEN TextNode(match[1], "plain")
  ELSE [type |-> "link", url |-> match[3], children |-> <<TextNode(match[2], "plain")>>]

\* The patterns, in the order of the code: what opens and what closes a span.
patterns ==
  << [key |-> "bold", open |-> <<"*", "*">>, close |-> <<"*", "*">>],
     [key |-> "italic", open |-> <<"_">>, close |-> <<"_">>],
     [key |-> "strikethrough", open |-> <<"~", "~">>, close |-> <<"~", "~">>],
     [key |-> "underline", open |-> <<"<u>">>, close |-> <<"</u>">>],
     [key |-> "link", open |-> <<"[">>, close |-> <<")">>] >>

\* The token sequence pat stands in s at position i.
IsAt(s, pat, i) ==
  /\ i >= 1 /\ i + Len(pat) - 1 <= Len(s)
  /\ \A n \in 1..Len(pat) : s[i + n - 1] = pat[n]

\* `.` matches every character but a line break.
DotStar(s) == \A n \in 1..Len(s) : s[n] # "\n"

Min(S) == CHOOSE x \in S : \A y \in S : x <= y

\* /open(.*?)close/ from position i: where the close may start.
SpanEnds(s, pat, i) ==
  { j \in (i + Len(pat.open))..Len(s) :
      IsAt(s, pat.close, j) /\ DotStar(SubSeq(s, i + Len(pat.open), j - 1)) }

\* /\[(.*?)\]\((.*?)\)/ : where the ")" may stand for a "](" at j, and where the
\* "](" may stand for a "[" at i.
LinkEnds(s, j) ==
  { k \in (j + 2)..Len(s) : s[k] = ")" /\ DotStar(SubSeq(s, j + 2, k - 1)) }
LinkMiddles(s, i) ==
  { j \in (i + 1)..Len(s) :
      IsAt(s, <<"]", "(">>, j) /\ DotStar(SubSeq(s, i + 1, j - 1)) /\ LinkEnds(s, j) # {} }

\* The positions where a match of the pattern may start.
MatchStarts(s, pat) ==
  { i \in 1..Len(s) :
      /\ IsAt(s, pat.open, i)
      /\ IF pat.key = "link" THEN LinkMiddles(s, i) # {} ELSE SpanEnds(s, pat, i) # {} }

\* regex.exec(remainingText) with lastIndex 0: the leftmost match, each (.*?) as
\* short as can be.  index is the position of the first token of the match
\* (match.index + 1), match the groups <<match[0], match[1], match[2]>>.
exec(pat, s) ==
  LET i == Min(MatchStarts(s, pat))
  IN IF pat.key = "link"
     THEN LET j == Min(LinkMiddles(s, i))
              k == Min(LinkEnds(s, j))
          IN [index |-> i,
              match |-> <<SubSeq(s, i, k), SubSeq(s, i + 1, j - 1), SubSeq(s, j + 2, k - 1)>>]
     ELSE LET j == Min(SpanEnds(s, pat, i))
          IN [index |-> i,
              match |-> <<SubSeq(s, i, j + Len(pat.close) - 1),
                          SubSeq(s, i + Len(pat.open), j - 1), <<>>>>]

\* A plausible slip: the text in front of a match is not pushed.
PushBeforeMatchNever(nodes, beforeMatch) == nodes

\* Lines 101-104: if (beforeMatch) nodes.push({ type: "text", text: beforeMatch })
PushBeforeMatch(nodes, beforeMatch) ==
  IF beforeMatch # <<>> THEN Append(nodes, TextNode(beforeMatch, "plain")) ELSE nodes

\* Lines 100-114: the while loop of one pattern over the remaining text.
\* st = [nodes, remainingText].
RECURSIVE ScanPattern(_, _)
ScanPattern(st, pat) ==
  IF MatchStarts(st.remainingText, pat) = {} THEN st
  ELSE LET m == exec(pat, st.remainingText)
           beforeMatch == SubSeq(st.remainingText, 1, m.index - 1)
           node == IF pat.key = "link" THEN processLinkMatch(m.match)
                   ELSE TextNode(m.match[2], pat.key)
       IN ScanPattern(
            [nodes |-> Append(PushBeforeMatch(st.nodes, beforeMatch), node),
             remainingText |-> SubSeq(st.remainingText, m.index + Len(m.match[1]),
                                      Len(st.remainingText))],
            pat)

\* Lines 98-115: the for loop over the patterns, from pattern n on.
RECURSIVE ScanPatterns(_, _)
ScanPatterns(st, n) ==
  IF n > Len(patterns) THEN st
  ELSE ScanPatterns(ScanPattern(st, patterns[n]), n + 1)

\* parseInlineParagraphFormatting(text)
parseInlineParagraphFormatting(text) ==
  LET st == ScanPatterns([nodes |-> <<>>, remainingText |-> text], 1)
  IN IF st.remainingText # <<>>
     THEN Append(st.nodes, TextNode(st.remainingText, "plain"))
     ELSE st.nodes

(***************************************************************************)
(* State.                                                                  *)
(***************************************************************************)
VARIABLES
  data,            \* the argument of importWPData: a sequence of posts
  isArray,         \* Array.isArray(data): FALSE when the posts come in a value
                   \* that is not an array (an object { 0: post, 1: post })
  error,           \* the message of the error importWPData threw ("none" before)
  requests,        \* history: requests[p] is the network requests that the
                   \* callback of post p has sent, in order
  markedRenderers, \* the renderers registered on the global `marked` by marked.use,
                   \* oldest first, each named by the call that made it
  objectOutputs,   \* objectOutputs[p]: the array objectOutput of the call of
                   \* parseMarkdownToObject for post p
  instance,        \* closure variable `instance` of ImageCacheManager (0: undefined)
  stores,          \* stores[h]: the _store Map of the instance with handle h
  pc,              \* pc[p]: where the callback of post p stands
  cacheManager,    \* cacheManager[p]: the handle processMarkdownImages holds (0: none)
  idx,             \* idx[p]: position of the for-loop over matches
  result,          \* result[p]: the local `result` of processMarkdownImages
  stats,           \* stats[p]: { processed, cached, uploaded, failed }
  processedFiles,  \* processedFiles[p]: Map normalized file name -> record
  submitted,       \* submitted[p]: the bodies POSTed for post p, in order
  response,        \* response[p]: the answer to the POST of post p ("none" before)
  results,         \* what importWPData returned (<<>> before it returns)
  returned,        \* TRUE once importWPData has returned
  how,             \* history: how[p][i] is what happened to reference i of post p
  firstSet,        \* history: the first record stored under each cache key
  lastSet,         \* history: the last record stored under each cache key
  inlineText,      \* the argument of parseInlineParagraphFormatting
  inlineNodes,     \* what parseInlineParagraphFormatting returned
  document,        \* the argument of parseMarkdownToObject, as marked's lexer
                   \* reads it: the sequence of its block tokens
  objectOutput,    \* objectOutput of parseMarkdownToObject
  converted,       \* what convertNodesToMarkdown returned, read as blocks
  stage            \* where the parsing of text or markdown stands

vars == <<data, isArray, error, requests, markedRenderers, objectOutputs, instance, stores, pc, cacheManager, idx,
          result, stats, processedFiles, submitted, response, results, returned,
          how, firstSet, lastSet, inlineText, inlineNodes, document, objectOutput,
          converted, stage>>

\* The variables of the Markdown parsers, which importWPData's image pipeline
\* does not touch.
parseVars == <<inlineText, inlineNodes, document, objectOutput, converted, stage>>

N == Len(data)
Tasks == 1..N

\* The Markdown that turndown renders for post p, and its image matches.
Markdown(p) == turndown(data[p].imgs)
Matches(p) == matchAll(Markdown(p))

(***************************************************************************)
(* The cache methods, called through a handle h.                           *)
(***************************************************************************)
\* has(key) { return this._store.has(key) }
CacheHas(sts, h, key) == MapHas(sts[h], key)
\* get(key) { return this._store.get(key) }
CacheGet(sts, h, key) == MapGet(sts[h], key)
\* set(key, value) { this._store.set(key, value) }
CacheSet(sts, h, key, value) == [sts EXCEPT ![h] = MapSet(@, key, value)]
\* getStats().size
CacheSize(sts, h) == Cardinality(DOMAIN sts[h])

\* History of the set calls: the first and the last record stored under a key.
NoteFirst(f, key, value) ==
  IF key \in DOMAIN f THEN f
  ELSE [x \in (DOMAIN f) \cup {key} |-> IF x = key THEN value ELSE f[x]]
NoteLast(f, key, value) ==
  [x \in (DOMAIN f) \cup {key} |-> IF x = key THEN value ELSE f[x]]

(***************************************************************************)
(* processMarkdownImages: the for-loop over the matches.                   *)
(*                                                                         *)
(* JavaScript runs a callback without interruption up to its next await on *)
(* the network, so the loop is one step from the reference it stands on up *)
(* to the first reference that needs a download (or to the end): cache     *)
(* hits and same-name duplicates contain no await.                         *)
(* st = [idx, result, stats, files, stores, how, firstSet, lastSet].       *)
(***************************************************************************)
\* History entry of one reference: what happened to it (kind), the record it was
\* substituted with (rec), its normalized key, and what the cache held under that
\* key through the pipeline's handle when the iteration ended (inCache).
Outcome(kind, rec, key, sts, h) ==
  [kind |-> kind, rec |-> rec, key |-> key, inCache |-> CacheGet(sts, h, key)]

\* stats.processed++ at the top of an iteration
CountProcessed(st) == [st EXCEPT !.stats.processed = @ + 1]

\* Lines 90-99: the cache-hit branch.
CacheHit(st, h, m, normalizedSrc) ==
  LET cached == CacheGet(st.stores, h, normalizedSrc)
  IN [st EXCEPT !.stats.cached = @ + 1,
                !.result = replace(@, m, createMarkdownImage(cached.filename, cached.url, m.title)),
                !.how = Append(@, Outcome("hit", cached, normalizedSrc, st.stores, h)),
                !.idx = @ + 1]

\* A plausible slip: the same-name branch does not count the reference.
DuplicateFileUncounted(st, h, m, normalizedSrc, existingFile) ==
  LET after == CacheSet(st.stores, h, normalizedSrc, existingFile) IN
  [st EXCEPT !.stores = after,
             !.firstSet = NoteFirst(@, normalizedSrc, existingFile),
             !.lastSet = NoteLast(@, normalizedSrc, existingFile),
             !.result = replace(@, m, createMarkdownImage(existingFile.filename, existingFile.url, m.title)),
             !.how = Append(@, Outcome("dup", existingFile, normalizedSrc, after, h)),
             !.idx = @ + 1]

\* Lines 107-119: the same-name branch.
DuplicateFile(st, h, m, normalizedSrc, existingFile) ==
  LET after == CacheSet(st.stores, h, normalizedSrc, existingFile) IN
  [st EXCEPT !.stores = after,
             !.firstSet = NoteFirst(@, normalizedSrc, existingFile),
             !.lastSet = NoteLast(@, normalizedSrc, existingFile),
             !.stats.cached = @ + 1,
             !.result = replace(@, m, createMarkdownImage(existingFile.filename, existingFile.url, m.title)),
             !.how = Append(@, Outcome("dup", existingFile, normalizedSrc, after, h)),
             !.idx = @ + 1]

\* A plausible slip: the cache is never consulted, every reference is a miss.
NeedsDownloadAlways(st, h, m) == TRUE

\* TRUE when the iteration for match m reaches `await downloadAndUploadFile`:
\* the key is not cached and no processed file has the same normalized name.
NeedsDownload(st, h, m) ==
  LET normalizedSrc == normalizeUrl(m.url)
      sourceFilename == getFilename(normalizedSrc)
  IN /\ ~CacheHas(st.stores, h, normalizedSrc)
     /\ ~(sourceFilename # <<>> /\ MapHas(st.files, normalizeFilename(sourceFilename)))

\* One iteration that ends with `continue` (lines 82-120).
Iterate(st, h, m) ==
  LET normalizedSrc == normalizeUrl(m.url)
      sourceFilename == getFilename(normalizedSrc)
      counted == CountProcessed(st)
  IN IF CacheHas(st.stores, h, normalizedSrc)
     THEN CacheHit(counted, h, m, normalizedSrc)
     ELSE DuplicateFile(counted, h, m, normalizedSrc,
                        MapGet(st.files, normalizeFilename(sourceFilename)))

\* The loop from st.idx on, up to the first await or to the end of matches.
\* At an await the iteration has counted the reference (stats.processed++).
RECURSIVE RunLoop(_, _, _)
RunLoop(st, h, matches) ==
  IF st.idx > Len(matches) THEN st
  ELSE IF NeedsDownload(st, h, matches[st.idx])
       THEN CountProcessed(st)
       ELSE \* the state after the iteration is computed once, then the loop goes on
            CHOOSE r \in { RunLoop(next, h, matches) :
                             next \in {Iterate(st, h, matches[st.idx])} } : TRUE

\* A plausible slip: the try/catch is around the loop, not inside it: a failed
\* reference ends the loop.
ImageFailedAborts(st, h, kind, key, matches) ==
  [st EXCEPT !.stats.failed = @ + 1,
             !.how = Append(@, Outcome(kind, undefined, key, st.stores, h)),
             !.idx = Len(matches) + 1]

\* A plausible slip: the catch caches the source reference under its key, so
\* that the image is not tried again.
ImageFailedCachesSource(st, h, kind, key, matches) ==
  [st EXCEPT !.stats.failed = @ + 1,
             !.stores = CacheSet(@, h, key, [url |-> key, filename |-> <<"image">>]),
             !.how = Append(@, Outcome(kind, undefined, key, st.stores, h)),
             !.idx = @ + 1]

\* A plausible slip: a failed reference is tried again (the loop does not move).
ImageFailedRetries(st, h, kind, key, matches) ==
  [st EXCEPT !.stats.failed = @ + 1,
             !.how = Append(@, Outcome(kind, undefined, key, st.stores, h))]

\* Lines 149-152: catch (error) { stats.failed++ }; the loop goes on.
ImageFailed(st, h, kind, key, matches) ==
  [st EXCEPT !.stats.failed = @ + 1,
             !.how = Append(@, Outcome(kind, undefined, key, st.stores, h)),
             !.idx = @ + 1]

\* The file name downloadAndUploadFile gives the uploaded file (line 136-137).
UploadFilename(url) ==
  IF getFilename(url) = <<>> THEN <<"image">> ELSE getFilename(url)

\* The first element of the upload endpoint's answer, for the upload that post
\* p makes for its reference i: the storage gives every upload an URL of its own.
UploadData(answer, p, i, sentName) ==
  [url |-> <<"/", "uploads", "/", ToString(p), "_", ToString(i)>>,
   name |-> IF answer = "renamed" THEN <<"asset", ".jpg">> ELSE sentName]

\* A plausible slip: processedFiles.set(...) is left out after an upload.
UploadedForgetsFile(st, h, m, uploadData) ==
  LET normalizedSrc == normalizeUrl(m.url)
      uploadedImage == [url |-> <<BASE_URL>> \o uploadData.url,
                        filename |-> uploadData.name]
      after == CacheSet(st.stores, h, normalizedSrc, uploadedImage)
  IN [st EXCEPT !.stores = after,
                !.firstSet = NoteFirst(@, normalizedSrc, uploadedImage),
                !.lastSet = NoteLast(@, normalizedSrc, uploadedImage),
                !.stats.uploaded = @ + 1,
                !.result = replace(@, m, createMarkdownImage(uploadedImage.filename, uploadedImage.url, m.title)),
                !.how = Append(@, Outcome("uploaded", uploadedImage, normalizedSrc, after, h)),
                !.idx = @ + 1]

\* Lines 133-148: the record is built, stored and substituted.
Uploaded(st, h, m, uploadData) ==
  LET normalizedSrc == normalizeUrl(m.url)
      sourceFilename == getFilename(normalizedSrc)
      uploadedImage == [url |-> <<BASE_URL>> \o uploadData.url,
                        filename |-> uploadData.name]
      after == CacheSet(st.stores, h, normalizedSrc, uploadedImage)
  IN [st EXCEPT !.files = IF sourceFilename # <<>>
                          THEN MapSet(@, normalizeFilename(uploadData.name), uploadedImage)
                          ELSE @,
                !.stores = after,
                !.firstSet = NoteFirst(@, normalizedSrc, uploadedImage),
                !.lastSet = NoteLast(@, normalizedSrc, uploadedImage),
                !.stats.uploaded = @ + 1,
                !.result = replace(@, m, createMarkdownImage(uploadedImage.filename, uploadedImage.url, m.title)),
                !.how = Append(@, Outcome("uploaded", uploadedImage, normalizedSrc, after, h)),
                !.idx = @ + 1]

(***************************************************************************)
(* Init: importWPData(data) has just been called with an array of posts.   *)
(***************************************************************************)
ZeroStats == [processed |-> 0, cached |-> 0, uploaded |-> 0, failed |-> 0]

RECURSIVE CountImages(_)
CountImages(d) == IF d = <<>> THEN 0 ELSE Len(Head(d).imgs) + CountImages(Tail(d))

DataInputs ==
  { d \in UNION { [1..n -> Posts] : n \in 1..MaxPosts } : CountImages(d) <= MaxImages }

SeqInputs == UNION { [1..n -> Posts] : n \in 1..MaxCalls }

\* No text and no document has been handed to the parsers.
ParsersIdle ==
  /\ inlineText = <<>> /\ inlineNodes = <<>>
  /\ document = <<>> /\ objectOutput = <<>> /\ converted = <<>>
  /\ stage = "idle"

Fresh ==
  /\ error = "none"
  /\ requests = [p \in 1..Len(data) |-> <<>>]
  /\ markedRenderers = <<>>
  /\ objectOutputs = [p \in 1..Len(data) |-> <<>>]
  /\ instance = 0
  /\ stores = <<>>
  /\ pc = [p \in 1..Len(data) |-> "pending"]
  /\ cacheManager = [p \in 1..Len(data) |-> 0]
  /\ idx = [p \in 1..Len(data) |-> 1]
  /\ result = [p \in 1..Len(data) |-> <<>>]
  /\ stats = [p \in 1..Len(data) |-> ZeroStats]
  /\ processedFiles = [p \in 1..Len(data) |-> NewMap]
  /\ submitted = [p \in 1..Len(data) |-> <<>>]
  /\ response = [p \in 1..Len(data) |-> "none"]
  /\ results = <<>>
  /\ returned = FALSE
  /\ how = [p \in 1..Len(data) |-> <<>>]
  /\ firstSet = <<>>
  /\ lastSet = <<>>

Init == data \in DataInputs /\ isArray \in BOOLEAN /\ Fresh /\ ParsersIdle

(***************************************************************************)
(* htmlToMarkdown and processMarkdownImages of one post.  `after` is where *)
(* the caller stands once htmlToMarkdown has returned.                     *)
(***************************************************************************)
\* The locals of processMarkdownImages of post p, with the shared cache.
Locals(p) ==
  [idx |-> idx[p], result |-> result[p], stats |-> stats[p],
   files |-> processedFiles[p], stores |-> stores, how |-> how[p],
   firstSet |-> firstSet, lastSet |-> lastSet]

\* What parseMarkdownToObject makes of the Markdown: one paragraph per image
\* reference, holding the raw reference as text.
parseMarkdownToObject(markdown) ==
  [i \in 1..Len(markdown) |->
     [type |-> "paragraph", children |-> <<[type |-> "text", text |-> markdown[i]]>>]]

\* A plausible slip: the renderer methods return false, which tells marked to
\* fall back to the renderer that was registered before.
ReturnsFalseAlways == TRUE

\* TRUE when a renderer method of parseMarkdownToObject returns false to marked.
\* heading, list, hr, blockquote and code end without a return (undefined) and
\* the async paragraph returns a promise: none returns false.
ReturnsFalse == FALSE

\* marked.use({ renderer, ... }) of the call for post p: the renderer is put on
\* top of those that earlier calls registered on the same global instance.
use(rs, p) == Append(rs, p)

\* marked calls the renderer method for one block token: the method registered
\* last runs first and pushes its block on the objectOutput of its own call; the
\* method registered before it runs only when this one returned false.
RECURSIVE CallRenderers(_, _, _)
CallRenderers(rs, outs, token) ==
  IF rs = <<>> THEN outs
  ELSE LET q == rs[Len(rs)]
           pushed == [outs EXCEPT ![q] = @ \o parseMarkdownToObject(<<token>>)]
       IN IF ReturnsFalse
          THEN CallRenderers(SubSeq(rs, 1, Len(rs) - 1), pushed, token)
          ELSE pushed

\* marked.parse(markdown): the block tokens are handed to the renderer in
\* document order.  The call is synchronous (the `async` option is not set).
RECURSIVE MarkedParse(_, _, _)
MarkedParse(rs, outs, markdown) ==
  IF markdown = <<>> THEN outs
  ELSE MarkedParse(rs, CallRenderers(rs, outs, Head(markdown)), Tail(markdown))

\* parseMarkdownToObject(markdown) of the callback of post p, on the global
\* marked: a new objectOutput, marked.use, marked.parse; no other callback runs
\* between them.  The value is the registered renderers and every objectOutput.
CallParseMarkdownToObject(p, markdown) ==
  LET rs == use(markedRenderers, p)
  IN [renderers |-> rs,
      outputs |-> MarkedParse(rs, [objectOutputs EXCEPT ![p] = <<>>], markdown)]

\* The body importWPData POSTs for a post (lines 288-295).
RequestBody(markdown, json) ==
  [content |-> markdown, blocksContent |-> json]

\* A network request of a callback: fetch(url) of reference ref ("download"),
\* the POST of the file of reference ref to the upload endpoint ("upload"), the
\* POST of the post to the destination API ("submit", ref 0).
Request(kind, ref) == [kind |-> kind, ref |-> ref]

\* A plausible slip: htmlToMarkdown is not awaited: the POST is sent when the
\* image pipeline stops at its first await.
SuspendSubmitsAtOnce(p, st, after) ==
  LET over == st.idx > Len(Matches(p))
      sends == after = "submit" /\ submitted[p] = <<>>
  IN /\ idx' = [idx EXCEPT ![p] = st.idx]
     /\ result' = [result EXCEPT ![p] = st.result]
     /\ stats' = [stats EXCEPT ![p] = st.stats]
     /\ processedFiles' = [processedFiles EXCEPT ![p] = st.files]
     /\ stores' = st.stores
     /\ how' = [how EXCEPT ![p] = st.how]
     /\ firstSet' = st.firstSet
     /\ lastSet' = st.lastSet
     /\ pc' = [pc EXCEPT ![p] = IF over THEN after ELSE "download"]
     /\ \E parsed \in {IF sends THEN CallParseMarkdownToObject(p, st.result)
                         ELSE [renderers |-> markedRenderers, outputs |-> objectOutputs]} :
          /\ markedRenderers' = parsed.renderers
          /\ objectOutputs' = parsed.outputs
          /\ submitted' = IF sends
                          THEN [submitted EXCEPT ![p] =
                                  Append(@, RequestBody(st.result, parsed.outputs[p]))]
                          ELSE submitted
     /\ requests' = [requests EXCEPT ![p] =
                       (IF sends THEN Append(@, Request("submit", 0)) ELSE @)
                         \o (IF over THEN <<>> ELSE <<Request("download", st.idx)>>)]

\* The loop of post p stopped in state st: at an await, or at its end, where
\* processMarkdownImages and then htmlToMarkdown return `result`.  The caller
\* of htmlToMarkdown goes on without waiting for the network: importWPData
\* parses the Markdown and sends the POST (after = "submit").
Suspend(p, st, after) ==
  LET over == st.idx > Len(Matches(p))
  IN /\ idx' = [idx EXCEPT ![p] = st.idx]
     /\ result' = [result EXCEPT ![p] = st.result]
     /\ stats' = [stats EXCEPT ![p] = st.stats]
     /\ processedFiles' = [processedFiles EXCEPT ![p] = st.files]
     /\ stores' = st.stores
     /\ how' = [how EXCEPT ![p] = st.how]
     /\ firstSet' = st.firstSet
     /\ lastSet' = st.lastSet
     /\ pc' = [pc EXCEPT ![p] = IF over THEN after ELSE "download"]
     /\ \E parsed \in {IF over /\ after = "submit"
                         THEN CallParseMarkdownToObject(p, st.result)
                         ELSE [renderers |-> markedRenderers, outputs |-> objectOutputs]} :
          /\ markedRenderers' = parsed.renderers
          /\ objectOutputs' = parsed.outputs
          /\ submitted' = IF over /\ after = "submit"
                          THEN [submitted EXCEPT ![p] =
                                  Append(@, RequestBody(st.result, parsed.outputs[p]))]
                          ELSE submitted
     /\ requests' = [requests EXCEPT ![p] =
                       IF ~over THEN Append(@, Request("download", st.idx))
                       ELSE IF after = "submit" THEN Append(@, Request("submit", 0))
                       ELSE @]

\* The match the loop of post p stands on, and its normalized key.
Current(p) == Matches(p)[idx[p]]
CurrentKey(p) == normalizeUrl(Current(p).url)

\* A plausible slip: the test of the input is left out of htmlToMarkdown, and a
\* value that is not a non-empty string is rendered as an empty document.
CallHtmlToMarkdownUnchecked(p, after) ==
  /\ pc[p] = "pending"
  /\ LET gi == getInstance(instance, stores)
         st0 == [idx |-> 1, result |-> Markdown(p), stats |-> ZeroStats,
                 files |-> NewMap, stores |-> gi.stores, how |-> <<>>,
                 firstSet |-> firstSet, lastSet |-> lastSet]
     IN /\ instance' = gi.instance
        /\ cacheManager' = [cacheManager EXCEPT ![p] = gi.instance]
        /\ \E st \in {RunLoop(st0, gi.instance, Matches(p))} : Suspend(p, st, after)
  /\ UNCHANGED <<data, isArray, error, response, results, returned, parseVars>>

\* htmlToMarkdown(entity.content.rendered) up to its first await on the network:
\* the input test, turndown, and processMarkdownImages from getInstance() on.
CallHtmlToMarkdown(p, after) ==
  /\ pc[p] = "pending"
  /\ IF ~data[p].valid
     THEN \* throw new Error("Invalid HTML input")
          /\ pc' = [pc EXCEPT ![p] = "rejected"]
          /\ UNCHANGED <<instance, stores, cacheManager, idx, result, stats,
                         processedFiles, submitted, requests, how, firstSet, lastSet,
                         markedRenderers, objectOutputs>>
     ELSE LET gi == getInstance(instance, stores)
              st0 == [idx |-> 1, result |-> Markdown(p), stats |-> ZeroStats,
                      files |-> NewMap, stores |-> gi.stores, how |-> <<>>,
                      firstSet |-> firstSet, lastSet |-> lastSet]
          IN /\ instance' = gi.instance
             /\ cacheManager' = [cacheManager EXCEPT ![p] = gi.instance]
             /\ \E st \in {RunLoop(st0, gi.instance, Matches(p))} : Suspend(p, st, after)
  /\ UNCHANGED <<data, isArray, error, response, results, returned, parseVars>>

\* `await fetch(url)` of downloadAndUploadFile resumes with the answer.
DownloadAnswered(p, answer, after) ==
  /\ pc[p] = "download"
  /\ IF answer = "ok"
     THEN \* the blob is read and the upload request is sent
          /\ pc' = [pc EXCEPT ![p] = "upload"]
          /\ requests' = [requests EXCEPT ![p] = Append(@, Request("upload", idx[p]))]
          /\ UNCHANGED <<stores, idx, result, stats, processedFiles, submitted,
                         how, firstSet, lastSet, markedRenderers, objectOutputs>>
     ELSE \E failed \in {ImageFailed(Locals(p), cacheManager[p], "downloadFailed",
                                      CurrentKey(p), Matches(p))} :
            \E st \in {RunLoop(failed, cacheManager[p], Matches(p))} :
              Suspend(p, st, after)
  /\ UNCHANGED <<data, isArray, error, instance, cacheManager, response, results, returned,
                 parseVars>>

\* `await fetch(uploadUrl, ...)` resumes with the answer.
UploadAnswered(p, answer, after) ==
  /\ pc[p] = "upload"
  /\ LET h == cacheManager[p]
         st == CASE answer = "error" ->
                      ImageFailed(Locals(p), h, "uploadFailed", CurrentKey(p), Matches(p))
                 [] answer = "malformed" ->
                      ImageFailed(Locals(p), h, "formatFailed", CurrentKey(p), Matches(p))
                 [] OTHER ->
                      Uploaded(Locals(p), h, Current(p),
                               UploadData(answer, p, idx[p], UploadFilename(CurrentKey(p))))
     IN \E handled \in {st} :
          \E st2 \in {RunLoop(handled, h, Matches(p))} : Suspend(p, st2, after)
  /\ UNCHANGED <<data, isArray, error, instance, cacheManager, response, results, returned,
                 parseVars>>

(***************************************************************************)
(* importWPData.                                                           *)
(***************************************************************************)
\* data.map(async (entity) => ...) calls the callbacks one after the other, each
\* up to its first await, before any awaited answer is handled.
AllStarted == \A p \in Tasks : pc[p] # "pending"

\* A plausible slip: the Array.isArray test is left out.
InputAcceptedAlways == TRUE

\* Line 275: Array.isArray(data)
InputAccepted == isArray

\* Line 275: if (!Array.isArray(data)) throw new Error("Input data must be an array")
InvalidData ==
  /\ ~InputAccepted
  /\ error = "none"
  /\ error' = "Input data must be an array"
  /\ UNCHANGED <<data, isArray, requests, markedRenderers, objectOutputs, instance, stores, pc, cacheManager, idx,
                 result, stats, processedFiles, submitted, response, results,
                 returned, how, firstSet, lastSet, parseVars>>

\* The callback of post p starts (lines 280-296).
Start(p) ==
  /\ InputAccepted
  /\ error = "none"
  /\ \A q \in 1..(p - 1) : pc[q] # "pending"
  /\ CallHtmlToMarkdown(p, "submit")

DownloadResponse(p, answer) ==
  /\ AllStarted
  /\ DownloadAnswered(p, answer, "submit")

UploadResponse(p, answer) ==
  /\ AllStarted
  /\ UploadAnswered(p, answer, "submit")

\* Lines 298-312: the POST is answered: response.ok or an error thrown on.
SubmitResponse(p, answer) ==
  /\ AllStarted
  /\ pc[p] = "submit"
  /\ response' = [response EXCEPT ![p] = answer]
  /\ pc' = [pc EXCEPT ![p] = IF answer = "ok" THEN "fulfilled" ELSE "rejected"]
  /\ UNCHANGED <<data, isArray, error, requests, markedRenderers, objectOutputs,
                 instance, stores, cacheManager, idx,
                 result, stats, processedFiles, submitted, results, returned, how,
                 firstSet, lastSet, parseVars>>

\* A plausible slip: the wait is for the success of every callback.
SettledWhenFulfilled(p) == pc[p] = "fulfilled"

\* The promise of the callback of post p has settled.
Settled(p) == pc[p] \in {"fulfilled", "rejected"}

\* A plausible slip: Promise.all, which rejects as a whole on the first rejection.
PromiseAll(states) ==
  IF \E p \in 1..Len(states) : states[p] = "rejected"
  THEN <<[status |-> "rejected"]>>
  ELSE [p \in 1..Len(states) |-> [status |-> states[p]]]

\* Promise.allSettled: one outcome per promise, in the order of the input.
PromiseAllSettled(states) ==
  [p \in 1..Len(states) |-> [status |-> states[p]]]

\* Lines 314-324: every callback has settled; importWPData returns results.
Return ==
  /\ ~returned
  /\ \A p \in Tasks : Settled(p)
  /\ results' = PromiseAllSettled(pc)
  /\ returned' = TRUE
  /\ UNCHANGED <<data, isArray, error, requests, markedRenderers, objectOutputs,
                 instance, stores, pc, cacheManager,
                 idx, result, stats, processedFiles, submitted, response, how,
                 firstSet, lastSet, parseVars>>

Next ==
  \/ InvalidData
  \/ \E p \in Tasks : Start(p)
  \/ \E p \in Tasks, answer \in DownloadAnswers : DownloadResponse(p, answer)
  \/ \E p \in Tasks, answer \in UploadAnswers : UploadResponse(p, answer)
  \/ \E p \in Tasks, answer \in SubmitAnswers : SubmitResponse(p, answer)
  \/ Return

Spec == Init /\ [][Next]_vars

\* The same with the scheduling of the program: every network request is
\* answered, with a response or an error, and the event loop runs a callback
\* whose answer has arrived: the program does not stop while a step is possible.
SpecLive == Spec /\ WF_vars(Next)

(***************************************************************************)
(* htmlToMarkdown called for the posts of `data` one call after the other: *)
(* a call starts when the call before it has returned or thrown.           *)
(***************************************************************************)
InitSeq == data \in SeqInputs /\ isArray = TRUE /\ Fresh /\ ParsersIdle

PipelineOver(p) == pc[p] \in {"processed", "rejected"}

SeqCall(p) ==
  /\ \A q \in 1..(p - 1) : PipelineOver(q)
  /\ CallHtmlToMarkdown(p, "processed")

SeqDownloadResponse(p, answer) == DownloadAnswered(p, answer, "processed")

SeqUploadResponse(p, answer) == UploadAnswered(p, answer, "processed")

NextSeq ==
  \/ \E p \in Tasks : SeqCall(p)
  \/ \E p \in Tasks, answer \in DownloadAnswers : SeqDownloadResponse(p, answer)
  \/ \E p \in Tasks, answer \in UploadAnswers : SeqUploadResponse(p, answer)

SpecSeq == InitSeq /\ [][NextSeq]_vars

(***************************************************************************)
(* parseMarkdownToObject (lib/parse-markdown-to-object.js) and             *)
(* convertNodesToMarkdown (lib/utils.js) on a document.  marked reads the  *)
(* Markdown text into block tokens and calls the method of the renderer    *)
(* for each token, in document order, with the token as only argument:     *)
(* the methods heading, paragraph, list and blockquote read entity.text,   *)
(* entity.depth and entity.items of that token.                            *)
(***************************************************************************)
\* The block tokens of marked: { type, depth, text }, { type, text } and
\* { type, lang, text }.
HeadingToken(depth, txt) == [type |-> "heading", depth |-> depth, text |-> txt]
ParagraphToken(txt) == [type |-> "paragraph", text |-> txt]
CodeToken(lang, txt) == [type |-> "code", lang |-> lang, text |-> txt]

\* The Markdown text of a block, as it stands in the input of
\* parseMarkdownToObject; "\n\n" is an empty line, "<fence>" the three backquotes
\* of a code fence, lang "" no language.
MarkdownOfBlock(token) ==
  CASE token.type = "heading" ->
         [n \in 1..token.depth |-> "#"] \o <<" ">> \o token.text \o <<"\n\n">>
    [] token.type = "paragraph" -> token.text \o <<"\n\n">>
    [] token.type = "code" ->
         <<"<fence>">> \o (IF token.lang = "" THEN <<>> ELSE <<token.lang>>) \o <<"\n">>
           \o token.text \o <<"\n", "<fence>", "\n\n">>

\* isBoldMarkdown(text): /(\*\*|__)(.*?)\1/g.test(text)
isBoldMarkdown(txt) ==
  \E mark \in {<<"*", "*">>, <<"_", "_">>} :
    \E i \in 1..Len(txt), j \in 1..Len(txt) :
      /\ IsAt(txt, mark, i) /\ j >= i + 2 /\ IsAt(txt, mark, j)
      /\ DotStar(SubSeq(txt, i + 2, j - 1))

\* Lines 13-26: heading(entity) pushes a heading block.
heading(out, entity) ==
  Append(out, [type |-> "heading",
               children |-> <<TextNode(entity.text,
                                       IF isBoldMarkdown(entity.text) THEN "bold" ELSE "plain")>>,
               level |-> entity.depth])

\* Line 29: /!\[(.*?)\]\((.*?)\)/.test(entity.text)
isImage(txt) ==
  \E i \in 1..Len(txt) :
    IsAt(txt, <<"!", "[">>, i) /\ LinkMiddles(txt, i + 1) # {}

\* Lines 28-42: paragraph(entity) pushes a paragraph block.
paragraph(out, entity) ==
  IF isImage(entity.text)
  THEN Append(out, [type |-> "paragraph", children |-> <<TextNode(entity.text, "plain")>>])
  ELSE Append(out, [type |-> "paragraph",
                    children |-> parseInlineParagraphFormatting(entity.text)])

\* String.prototype.trim: white space at both ends is dropped (the other tokens
\* of a document neither start nor end with white space).
WhiteSpace == {" ", "\n", "\n\n"}
RECURSIVE trimStart(_)
trimStart(s) == IF s # <<>> /\ Head(s) \in WhiteSpace THEN trimStart(Tail(s)) ELSE s
RECURSIVE trimEnd(_)
trimEnd(s) ==
  IF s # <<>> /\ s[Len(s)] \in WhiteSpace THEN trimEnd(SubSeq(s, 1, Len(s) - 1)) ELSE s
trim(s) == trimEnd(trimStart(s))

\* Lines 66-72: code(code, language).  The method is written for two strings,
\* but its first argument is the token of the block, like entity of the other
\* methods, and a token has no method trim: code.trim() throws a TypeError.
\* The result is [threw, objectOutput].
code(out, token, language) ==
  [threw |-> TRUE, objectOutput |-> out]

\* marked.parse(markdown) with the renderer of lines 12-73: the method of each
\* token is called, from the first token on, until one throws.
RECURSIVE CallRenderer(_, _)
CallRenderer(out, tokens) ==
  IF tokens = <<>> THEN [threw |-> FALSE, objectOutput |-> out]
  ELSE LET token == Head(tokens)
       IN CASE token.type = "heading" -> CallRenderer(heading(out, token), Tail(tokens))
            [] token.type = "paragraph" -> CallRenderer(paragraph(out, token), Tail(tokens))
            [] token.type = "code" -> code(out, token, undefined)

\* convertNodesToMarkdown of a text node (lines 212-219).
ConvertText(node) ==
  CASE node.style = "bold" -> <<"*", "*">> \o node.text \o <<"*", "*">>
    [] node.style = "italic" -> <<"*">> \o node.text \o <<"*">>
    [] node.style = "underline" -> <<"<u>">> \o node.text \o <<"</u>">>
    [] node.style = "strikethrough" -> <<"~", "~">> \o node.text \o <<"~", "~">>
    [] OTHER -> node.text

\* convertNodesToMarkdown(node.children) for the children of a block or of a
\* link: text nodes and link nodes (lines 212-224), and the final trim().
RECURSIVE ConvertInline(_)
ConvertInline(children) ==
  trim(Flatten([n \in 1..Len(children) |->
    IF children[n].type = "link"
    THEN <<"[">> \o ConvertInline(children[n].children) \o <<"]", "(">>
           \o children[n].url \o <<")">>
    ELSE ConvertText(children[n])]))

\* The Markdown of one block node (lines 198-211 and 240-245).
ConvertBlock(node) ==
  CASE node.type = "heading" ->
         [n \in 1..node.level |-> "#"] \o <<" ">> \o ConvertInline(node.children)
           \o <<"\n\n">>
    [] node.type = "paragraph" -> ConvertInline(node.children) \o <<"\n\n">>
    [] node.type = "code" ->
         <<"<fence>">> \o (IF node.language = "" THEN <<>> ELSE <<node.language>>) \o <<"\n">>
           \o ConvertInline(node.children) \o <<"\n", "<fence>", "\n\n">>

\* convertNodesToMarkdown(nodes) for an array of block nodes.
convertNodesToMarkdown(blockNodes) ==
  trim(Flatten([n \in 1..Len(blockNodes) |-> ConvertBlock(blockNodes[n])]))

(***************************************************************************)
(* The Markdown parsers called on their own: parseInlineParagraphFormatting *)
(* on a text, parseMarkdownToObject and convertNodesToMarkdown on a        *)
(* document.                                                               *)
(***************************************************************************)
\* The pieces the texts are made of: a span of every style, a link with a
\* well-formed target, a link with a target that is not a URL, literal text, an
\* opener without its close, a line break.
Segments ==
  { <<"*", "*", "bold", "*", "*">>,
    <<"_", "em", "_">>,
    <<"~", "~", "del", "~", "~">>,
    <<"<u>", "u", "</u>">>,
    <<"[", "link", "]", "(", "https://a.b", ")">>,
    <<"[", "x", "]", "(", "not a url", ")">>,
    <<" text ">>,
    <<"*", "*">>,
    <<"_">>,
    <<"[">>,
    <<"\n">> }

InlineInputs ==
  { Flatten(ss) : ss \in UNION { [1..n -> Segments] : n \in 0..MaxSegments } }

\* The blocks the documents are made of.
Blocks ==
  { HeadingToken(1, <<"Title">>),
    HeadingToken(2, <<"*", "*", "Sub", "*", "*">>),
    ParagraphToken(<<"text">>),
    ParagraphToken(<<"*", "*", "bold", "*", "*", " and ",
                     "[", "link", "]", "(", "https://a.b", ")">>),
    CodeToken("js", <<"code">>),
    CodeToken("", <<"code">>) }

\* Documents of headings, paragraphs and at most one code block.
Documents ==
  { d \in UNION { [1..n -> Blocks] : n \in 1..MaxBlocks } :
      Cardinality({ n \in 1..Len(d) : d[n].type = "code" }) <= 1 }

\* A text has been handed to parseInlineParagraphFormatting, or a document to
\* parseMarkdownToObject.
InitParse ==
  /\ data = <<>> /\ isArray = TRUE /\ Fresh
  /\ inlineNodes = <<>> /\ objectOutput = <<>> /\ converted = <<>>
  /\ \/ inlineText \in InlineInputs /\ document = <<>> /\ stage = "text"
     \/ inlineText = <<>> /\ document \in Documents /\ stage = "markdown"

\* parseInlineParagraphFormatting(text) runs and returns nodes.
ParseInline ==
  /\ stage = "text"
  /\ inlineNodes' = parseInlineParagraphFormatting(inlineText)
  /\ stage' = "nodes"
  /\ UNCHANGED <<data, isArray, error, requests, markedRenderers, objectOutputs,
                 instance, stores, pc, cacheManager,
                 idx, result, stats, processedFiles, submitted, response, results,
                 returned, how, firstSet, lastSet, inlineText, document,
                 objectOutput, converted>>

\* parseMarkdownToObject(markdown): marked.use and marked.parse run without an
\* await between them; objectOutput is returned, or the error of a method of
\* the renderer is thrown on.
Parse ==
  /\ stage = "markdown"
  /\ LET r == CallRenderer(<<>>, document)
     IN IF r.threw
        THEN stage' = "threw" /\ UNCHANGED objectOutput
        ELSE stage' = "parsed" /\ objectOutput' = r.objectOutput
  /\ UNCHANGED <<data, isArray, error, requests, markedRenderers, objectOutputs,
                 instance, stores, pc, cacheManager,
                 idx, result, stats, processedFiles, submitted, response, results,
                 returned, how, firstSet, lastSet, inlineText, inlineNodes, document,
                 converted>>

\* convertNodesToMarkdown(objectOutput) runs on the blocks that were returned.
Convert ==
  /\ stage = "parsed"
  /\ converted' = convertNodesToMarkdown(objectOutput)
  /\ stage' = "converted"
  /\ UNCHANGED <<data, isArray, error, requests, markedRenderers, objectOutputs,
                 instance, stores, pc, cacheManager,
                 idx, result, stats, processedFiles, submitted, response, results,
                 returned, how, firstSet, lastSet, inlineText, inlineNodes, document,
                 objectOutput>>

NextParse ==
  \/ ParseInline
  \/ Parse
  \/ Convert

SpecParse == InitParse /\ [][NextParse]_vars

(***************************************************************************)
(* Properties.                                                             *)
(***************************************************************************)
\* htmlToMarkdown of post p has returned its Markdown.
PipelineDone(p) ==
  data[p].valid /\ pc[p] \in {"processed", "submit", "fulfilled", "rejected"}

\* The references of post p that were uploaded with success under key k.
UploadsOf(p, k) ==
  { i \in 1..Len(how[p]) : how[p][i].kind = "uploaded" /\ how[p][i].key = k }

\* The normalized keys of the source URLs of the model.
AllKeys ==
  { normalizeUrl(u) : u \in {UrlSized, UrlPlain, UrlTier, UrlPic, UrlPic2, UrlDir} }

\* The normalized key of reference i of post p.
KeyOf(p, i) == normalizeUrl(Matches(p)[i].url)

\* Reference i of post p is waiting for its download or its upload.
InFlight(p, i) == pc[p] \in {"download", "upload"} /\ idx[p] = i

FailureKinds == {"downloadFailed", "uploadFailed", "formatFailed"}

\* The references of a Markdown text that still carry a source URL.
SourceRefs(markdown) ==
  { i \in 1..Len(markdown) : ~IsDestinationUrl(markdown[i].url) }

\* C1 (as claimed): posts are processed concurrently; whichever post reaches a
\* normalized key first populates the cache and every later post has a cache
\* hit, so no key is uploaded with success more than once in a run.
C1_KeyUploadedAtMostOnce ==
  \A k \in DOMAIN lastSet :
    \A p \in Tasks, q \in Tasks :
      /\ (p # q => UploadsOf(p, k) = {} \/ UploadsOf(q, k) = {})
      /\ Cardinality(UploadsOf(p, k)) <= 1

\* C2: importWPData returns exactly one outcome per post; a post is rejected
\* exactly when its own HTML is invalid or its own POST was answered with an
\* error, and every post with valid HTML had its whole pipeline run and its
\* POST sent, whatever happened to the other posts.
C2_OneOutcomePerPost ==
  returned =>
    /\ Len(results) = N
    /\ \A p \in Tasks :
         /\ results[p].status =
              (IF data[p].valid /\ response[p] = "ok" THEN "fulfilled" ELSE "rejected")
         /\ data[p].valid =>
              /\ Len(how[p]) = Len(Matches(p))
              /\ Len(submitted[p]) = 1

\* C2 witness: two posts, the POST of one answered with an error, the other
\* post fulfilled after its own POST.
C2_Witness ==
  /\ returned
  /\ \E p \in Tasks, q \in Tasks :
       /\ response[p] = "error" /\ results[p].status = "rejected"
       /\ response[q] = "ok" /\ results[q].status = "fulfilled"
       /\ Len(submitted[q]) = 1

\* C3 (as claimed): a reference whose download failed stands unchanged, at its
\* place, in the Markdown that processMarkdownImages returns, and it is counted
\* once in stats.failed.
C3_FailedReferenceUntouched ==
  \A p \in Tasks :
    PipelineDone(p) =>
      /\ \A i \in 1..Len(how[p]) :
           how[p][i].kind = "downloadFailed" => result[p][i] = Markdown(p)[i]
      /\ stats[p].failed =
           Cardinality({ i \in 1..Len(how[p]) : how[p][i].kind \in FailureKinds })

\* C4: a failed download, a failed upload or a malformed upload answer never
\* ends the loop: the references are handled one by one from left to right (the
\* loop stands on the reference after the last one handled), and once
\* htmlToMarkdown has returned every reference has been handled and counted; a
\* post with valid HTML is never rejected without its POST having been sent.
C4_FailureNeverAborts ==
  \A p \in Tasks :
    /\ \A i \in 1..Len(how[p]) : how[p][i].key = normalizeUrl(Matches(p)[i].url)
    /\ pc[p] \in {"download", "upload"} => idx[p] = Len(how[p]) + 1
    /\ PipelineDone(p) =>
         /\ Len(how[p]) = Len(Matches(p))
         /\ stats[p].processed = Len(Matches(p))
         /\ Len(result[p]) = Len(Matches(p))
    /\ (data[p].valid /\ pc[p] = "rejected") => Len(submitted[p]) = 1

\* C4 witness: two calls have returned; one had a malformed upload answer on its
\* first reference and a failed upload on its second, the other a failed download.
C4_Witness ==
  \E p \in Tasks, q \in Tasks :
    /\ PipelineDone(p) /\ PipelineDone(q)
    /\ Len(how[p]) = 2
    /\ how[p][1].kind = "formatFailed"
    /\ how[p][2].kind = "uploadFailed"
    /\ Len(how[q]) = 1
    /\ how[q][1].kind = "downloadFailed"

Variants == {UrlSized, UrlPlain, UrlTier}

\* Reference i of post p is handled before reference j of post q when the calls
\* run one after the other.
Before(p, i, q, j) == p < q \/ (p = q /\ i < j)

\* C7: of two source URLs that differ only in what normalizeUrl strips, once the
\* first has been uploaded the second is never downloaded or uploaded: it is a
\* cache hit, substituted with the record of the first.
C7_SameKeyIsCacheHit ==
  \A p \in Tasks, q \in Tasks :
    \A i \in 1..Len(how[p]), j \in 1..Len(Matches(q)) :
      ( /\ Before(p, i, q, j)
        /\ Matches(p)[i].url \in Variants
        /\ Matches(q)[j].url \in Variants
        /\ how[p][i].kind = "uploaded" ) =>
          /\ ~InFlight(q, j)
          /\ j <= Len(how[q]) =>
               /\ how[q][j].kind = "hit"
               /\ how[q][j].rec = how[p][i].rec
               /\ result[q][j].url = how[p][i].rec.url

\* C7 witness: the URL with size suffix and query was uploaded by the first call
\* and another URL of the same image was a cache hit in the second.
C7_Witness ==
  /\ N >= 2
  /\ how[1] # <<>> /\ how[2] # <<>>
  /\ Matches(1)[1].url = UrlSized /\ how[1][1].kind = "uploaded"
  /\ Matches(2)[1].url \in {UrlPlain, UrlTier}
  /\ how[2][1].kind = "hit" /\ how[2][1].rec = how[1][1].rec

\* The normalized file name of the source of reference i of post p: last path
\* segment of the key, lowercased, separators and extension stripped.
SourceNameOf(p, i) == normalizeFilename(getFilename(KeyOf(p, i)))

\* C8 (as claimed): within one run, after an image has been uploaded, a later
\* reference with another key whose normalized file name equals that of the
\* uploaded file is not downloaded or uploaded: it reuses the record of the
\* earlier file, which is stored in the cache under the new key too.
C8_SameNameReused ==
  \A p \in Tasks :
    \A i \in 1..Len(how[p]), j \in 1..Len(Matches(p)) :
      ( /\ i < j
        /\ how[p][i].kind = "uploaded"
        /\ KeyOf(p, j) # KeyOf(p, i)
        /\ SourceNameOf(p, j) = normalizeFilename(how[p][i].rec.filename)
        /\ \A k \in (i + 1)..(j - 1) : how[p][k].kind # "uploaded" ) =>
          /\ ~InFlight(p, j)
          /\ j <= Len(how[p]) =>
               /\ how[p][j].kind \in {"hit", "dup"}
               /\ how[p][j].rec = how[p][i].rec
               /\ how[p][j].inCache = how[p][i].rec

\* Reference i of post p was uploaded from a URL with a file name, and the upload
\* endpoint returned a name that normalizes to `name`.
UploadedAs(p, i, name) ==
  /\ how[p][i].kind = "uploaded"
  /\ getFilename(KeyOf(p, i)) # <<>>
  /\ normalizeFilename(how[p][i].rec.filename) = name

\* C8 (amended): within one processMarkdownImages call, after an image has been
\* uploaded from a URL with a non-empty file name, a later reference of the call
\* whose key is not in the Image Cache when it is reached and whose non-empty
\* file name normalizes to the normalized name that the upload endpoint
\* returned for the latest such upload is not downloaded or uploaded: it reuses
\* the record of that upload, which is stored in the cache under the new key.
C8_SameNameReusedUnlessCached ==
  \A p \in Tasks :
    \A i \in 1..Len(how[p]), j \in 1..Len(Matches(p)) :
      ( /\ i < j
        /\ getFilename(KeyOf(p, j)) # <<>>
        /\ UploadedAs(p, i, SourceNameOf(p, j))
        /\ \A k \in (i + 1)..(j - 1) : ~UploadedAs(p, k, SourceNameOf(p, j)) ) =>
          /\ ~InFlight(p, j)
          /\ (j <= Len(how[p]) /\ how[p][j].kind # "hit") =>
               /\ how[p][j].kind = "dup"
               /\ KeyOf(p, j) # KeyOf(p, i)
               /\ how[p][j].rec = how[p][i].rec
               /\ how[p][j].inCache = how[p][i].rec

\* C8 witness: my-pic.jpg was uploaded and b/my_pic.png, another key, reused its
\* record without a download.
C8_Witness ==
  \E p \in Tasks :
    /\ Len(how[p]) = 2
    /\ Matches(p)[1].url = UrlPic /\ Matches(p)[2].url = UrlPic2
    /\ how[p][1].kind = "uploaded"
    /\ how[p][2].kind = "dup"
    /\ how[p][2].rec = how[p][1].rec
    /\ CacheGet(stores, cacheManager[p], KeyOf(p, 2)) = how[p][1].rec

\* C9: a key that is in the Image Cache stays in it at every step, whatever the
\* step is (an answered download, upload or POST, a return): has(k) never goes
\* from true to false and the size never decreases.
C9_CacheNeverShrinks ==
  [][ /\ Len(stores) <= Len(stores')
      /\ \A h \in 1..Len(stores) :
           /\ \A k \in AllKeys : CacheHas(stores, h, k) => CacheHas(stores', h, k)
           /\ CacheSize(stores, h) <= CacheSize(stores', h) ]_vars

\* C9 witness: the POST of a post failed and the entry that its pipeline
\* created is in the cache, next to another entry.
C9_Witness ==
  \E p \in Tasks :
    /\ response[p] = "error"
    /\ \E i \in 1..Len(how[p]) :
         /\ how[p][i].kind = "uploaded"
         /\ CacheGet(stores, cacheManager[p], how[p][i].key) = how[p][i].rec
    /\ CacheSize(stores, cacheManager[p]) >= 2

\* C10: there is one store: every getInstance() returns the same handle, and
\* through every handle has(k) and get(k) give the record of the last set(k, r)
\* made through any handle, and false and undefined for a key never set.
C10_OneSharedStore ==
  /\ Len(stores) <= 1
  /\ instance = Len(stores)
  /\ \A p \in Tasks :
       cacheManager[p] # 0 =>
         /\ cacheManager[p] = instance
         /\ \A k \in AllKeys :
              /\ CacheHas(stores, cacheManager[p], k) <=> k \in DOMAIN lastSet
              /\ CacheGet(stores, cacheManager[p], k) =
                   (IF k \in DOMAIN lastSet THEN lastSet[k] ELSE undefined)

\* C10 witness: two pipelines hold the handle; a key was set twice and get gives
\* the second record; another key was never set.
C10_Witness ==
  /\ N = 2
  /\ cacheManager[1] # 0 /\ cacheManager[2] = cacheManager[1]
  /\ \E k \in DOMAIN lastSet :
       /\ firstSet[k] # lastSet[k]
       /\ CacheGet(stores, cacheManager[2], k) = lastSet[k]
  /\ \E k \in AllKeys :
       /\ ~CacheHas(stores, cacheManager[1], k)
       /\ CacheGet(stores, cacheManager[1], k) = undefined

\* Nothing of the import has happened: no post was rendered, no instance of the
\* cache was built, no entry was written, no request was sent.
NothingDone ==
  /\ \A p \in Tasks :
       /\ pc[p] = "pending"
       /\ cacheManager[p] = 0
       /\ how[p] = <<>>
       /\ result[p] = <<>>
       /\ requests[p] = <<>>
       /\ submitted[p] = <<>>
  /\ instance = 0
  /\ stores = <<>>
  /\ firstSet = <<>> /\ lastSet = <<>>
  /\ ~returned

\* C11: importWPData called with an argument that is not an array throws
\* "Input data must be an array" (and only then), and nothing is done before or
\* after: no post is rendered, no image is downloaded or uploaded, no cache
\* entry is written, no submission is sent.
C11_NotAnArrayFailsFast ==
  /\ [](~isArray => NothingDone)
  /\ [](error # "none" => ~isArray /\ error = "Input data must be an array")
  /\ (~isArray ~> error = "Input data must be an array")

\* C11 witness: the error was thrown for a value that holds two posts, the
\* first one with images to rehost.
C11_Witness ==
  /\ ~isArray
  /\ error = "Input data must be an array"
  /\ N = 2
  /\ data[1].valid /\ data[1].imgs # <<>>

\* C12: htmlToMarkdown of a value that is not a non-empty string throws without
\* asking for the cache and without any network request: the step that throws
\* leaves the cache and its instance as they were; in importWPData the post
\* ends as a rejected outcome and no submission is ever sent for it.
C12_InvalidHtmlRejected ==
  /\ [](\A p \in Tasks :
          ~data[p].valid =>
            /\ pc[p] \in {"pending", "rejected"}
            /\ cacheManager[p] = 0
            /\ requests[p] = <<>>
            /\ submitted[p] = <<>>
            /\ how[p] = <<>>
            /\ returned => results[p].status = "rejected")
  /\ [][\A p \in Tasks :
          (~data[p].valid /\ pc'[p] # pc[p]) =>
            /\ pc'[p] = "rejected"
            /\ UNCHANGED <<instance, stores, requests, submitted>>]_vars

\* C12 witness: importWPData has returned; the first post had invalid HTML and
\* is rejected without a submission, the second was rehosted and fulfilled.
C12_Witness ==
  /\ returned
  /\ N = 2
  /\ ~data[1].valid
  /\ results[1].status = "rejected" /\ submitted[1] = <<>> /\ requests[1] = <<>>
  /\ results[2].status = "fulfilled" /\ stats[2].uploaded >= 1

\* The requests of kind `kind` that post p has sent for its reference ref.
RequestsOf(p, kind, ref) ==
  { n \in 1..Len(requests[p]) : requests[p][n] = Request(kind, ref) }

\* C13: nothing is tried again: in one importWPData call a post is submitted at
\* most once, and in one processMarkdownImages call a reference causes at most
\* one download and at most one upload, whatever the answers are; an upload is
\* only sent for a reference that was downloaded.
C13_NoRetries ==
  \A p \in Tasks :
    /\ Len(submitted[p]) <= 1
    /\ Cardinality(RequestsOf(p, "submit", 0)) = Len(submitted[p])
    /\ \A n \in 1..Len(requests[p]) :
         requests[p][n].kind = "submit" \/ requests[p][n].ref \in 1..Len(Matches(p))
    /\ \A i \in 1..Len(Matches(p)) :
         /\ Cardinality(RequestsOf(p, "download", i)) <= 1
         /\ Cardinality(RequestsOf(p, "upload", i)) <= Cardinality(RequestsOf(p, "download", i))

\* C13 witness: importWPData has returned; the upload of the first reference of
\* a post failed, the download of its second failed, its POST failed, and each
\* was sent once.
C13_Witness ==
  /\ returned
  /\ \E p \in Tasks :
       /\ Len(how[p]) = 2
       /\ how[p][1].kind = "uploadFailed"
       /\ how[p][2].kind = "downloadFailed"
       /\ response[p] = "error"
       /\ requests[p] = <<Request("download", 1), Request("upload", 1),
                          Request("download", 2), Request("submit", 0)>>

\* C14: when every network request is answered, with a response or an error,
\* importWPData (called with an array) eventually returns; when it returns
\* every callback has run to its end: each outcome is fulfilled or rejected,
\* none is pending, and no request is waiting for its answer.
C14_EventuallyReturns ==
  /\ (isArray ~> returned)
  /\ [](returned =>
          /\ Len(results) = N
          /\ \A p \in Tasks :
               /\ results[p].status \in {"fulfilled", "rejected"}
               /\ results[p].status = pc[p]
               /\ data[p].valid =>
                    /\ idx[p] = Len(Matches(p)) + 1
                    /\ response[p] # "none")

\* C14 witness: importWPData has returned two fulfilled outcomes after two
\* uploads or more.
C14_Witness ==
  /\ returned
  /\ N = 2
  /\ results[1].status = "fulfilled" /\ results[2].status = "fulfilled"
  /\ stats[1].uploaded + stats[2].uploaded >= 2

\* The piece of the input that an output node of parseInlineParagraphFormatting
\* stands for: the text of a plain node, the span with its delimiters of a
\* styled node, [text](target) of a link node.
SourceOf(node) ==
  IF node.type = "link"
  THEN <<"[">> \o node.children[1].text \o <<"]", "(">> \o node.url \o <<")">>
  ELSE IF node.style = "plain" THEN node.text
  ELSE LET pat == CHOOSE q \in { patterns[n] : n \in 1..Len(patterns) } : q.key = node.style
       IN pat.open \o node.text \o pat.close

\* C15: the output nodes of parseInlineParagraphFormatting, in their order,
\* stand for consecutive pieces of the input that do not overlap and cover it:
\* the pieces put one after the other are the input; no plain text node is
\* empty, a link node holds one plain text node.
C15_OrderPreserved ==
  stage = "nodes" =>
    /\ Flatten([n \in 1..Len(inlineNodes) |-> SourceOf(inlineNodes[n])]) = inlineText
    /\ \A n \in 1..Len(inlineNodes) :
         /\ inlineNodes[n].type \in {"text", "link"}
         /\ (inlineNodes[n].type = "text" /\ inlineNodes[n].style = "plain") =>
              inlineNodes[n].text # <<>>
         /\ inlineNodes[n].type = "link" =>
              /\ Len(inlineNodes[n].children) = 1
              /\ inlineNodes[n].children[1].style = "plain"
    /\ (inlineText = <<>>) <=> (inlineNodes = <<>>)

\* C15 witness: "**bold** text [link](https://a.b)" has given a bold text node,
\* the plain text " text " and a link node.
C15_Witness ==
  /\ stage = "nodes"
  /\ inlineText = <<"*", "*", "bold", "*", "*", " text ",
                    "[", "link", "]", "(", "https://a.b", ")">>
  /\ inlineNodes = << TextNode(<<"bold">>, "bold"),
                      TextNode(<<" text ">>, "plain"),
                      [type |-> "link", url |-> <<"https://a.b">>,
                       children |-> <<TextNode(<<"link">>, "plain")>>] >>

\* [x](not a url)
InvalidLink == <<"[", "x", "]", "(", "not a url", ")">>

\* Literal text without any delimiter.
LiteralText == <<" text ">>

\* C16: a link match whose target is not a well-formed URL is never given as a
\* link node: every link node of the output has a well-formed target; the
\* match becomes one plain text node with the bracket syntax as it stood in the
\* input, next to the literal text that stands before and after it; for the
\* input [x](not a url) the output is that one node.
C16_InvalidLinkIsText ==
  stage = "nodes" =>
    /\ \A n \in 1..Len(inlineNodes) :
         inlineNodes[n].type = "link" => isValidUrl(inlineNodes[n].url)
    /\ inlineText = InvalidLink => inlineNodes = <<TextNode(InvalidLink, "plain")>>
    /\ inlineText = LiteralText \o InvalidLink \o LiteralText =>
         inlineNodes = << TextNode(LiteralText, "plain"),
                          TextNode(InvalidLink, "plain"),
                          TextNode(LiteralText, "plain") >>
    /\ inlineText = InvalidLink \o InvalidLink =>
         inlineNodes = << TextNode(InvalidLink, "plain"), TextNode(InvalidLink, "plain") >>

\* C16 witness: [x](not a url) was parsed into one plain text node.
C16_Witness ==
  /\ stage = "nodes"
  /\ inlineText = InvalidLink
  /\ inlineNodes = <<TextNode(InvalidLink, "plain")>>

\* The Markdown text cut at its empty lines.
RECURSIVE SplitBlocks(_, _)
SplitBlocks(s, chunk) ==
  IF s = <<>> THEN (IF chunk = <<>> THEN <<>> ELSE <<chunk>>)
  ELSE IF Head(s) = "\n\n"
       THEN (IF chunk = <<>> THEN <<>> ELSE <<chunk>>) \o SplitBlocks(Tail(s), <<>>)
       ELSE SplitBlocks(Tail(s), Append(chunk, Head(s)))

\* The block that a piece of Markdown text between two empty lines is: a
\* heading (#s, a space, the text), a code fence, or a paragraph.
ReadBlock(chunk) ==
  IF chunk[1] = "#"
  THEN LET depth == Min({ n \in 1..Len(chunk) : chunk[n] # "#" }) - 1
       IN HeadingToken(depth, trim(SubSeq(chunk, depth + 1, Len(chunk))))
  ELSE IF chunk[1] = "<fence>"
  THEN LET eol == Min({ n \in 1..Len(chunk) : chunk[n] = "\n" })
       IN CodeToken(IF eol = 2 THEN "" ELSE chunk[2], SubSeq(chunk, eol + 1, Len(chunk) - 2))
  ELSE ParagraphToken(chunk)

\* Emphasis marks and white space put aside.
Unmarked(s) == SelectSeq(s, LAMBDA t : t \notin WhiteSpace \cup {"*", "_"})

\* Two blocks are the same heading (level and text), the same paragraph or the
\* same code fence (language and body).
SameBlock(a, b) ==
  /\ a.type = b.type
  /\ Unmarked(a.text) = Unmarked(b.text)
  /\ a.type = "heading" => a.depth = b.depth
  /\ a.type = "code" => a.lang = b.lang

\* C17 (as claimed): for a document of headings, paragraphs and a code block,
\* parseMarkdownToObject returns its blocks and convertNodesToMarkdown of them
\* is the same document up to white space: the same headings with their level
\* and text, the same paragraphs, the same code fence.
C17_RoundTrip ==
  /\ stage # "threw"
  /\ stage = "converted" =>
       LET back == [n \in 1..Len(SplitBlocks(converted, <<>>)) |->
                      ReadBlock(SplitBlocks(converted, <<>>)[n])]
       IN /\ Len(back) = Len(document)
          /\ \A n \in 1..Len(back) : SameBlock(back[n], document[n])

\* C18 (as claimed): on a cache hit no download and no upload is sent for the
\* reference, the reference is substituted with the file name and the URL of
\* the cached record (its title kept), and the step leaves the cache as it was.
C18_CacheHitFrame ==
  /\ [](\A p \in Tasks :
          \A i \in 1..Len(how[p]) :
            how[p][i].kind = "hit" =>
              /\ RequestsOf(p, "download", i) = {}
              /\ RequestsOf(p, "upload", i) = {}
              /\ how[p][i].inCache = how[p][i].rec
              /\ result[p][i] = createMarkdownImage(how[p][i].rec.filename,
                                                    how[p][i].rec.url,
                                                    Markdown(p)[i].title))
  /\ [][\A p \in Tasks :
          ( /\ Len(how'[p]) > Len(how[p])
            /\ \A i \in (Len(how[p]) + 1)..Len(how'[p]) : how'[p][i].kind = "hit" ) =>
              stores' = stores]_vars

\* C19: for each post the POST is sent after the image pipeline has handled
\* every reference of the post (resolved or failed), never while a download or
\* an upload of the post is awaited; it is the last request of the post; its
\* content is the Markdown that the pipeline returned and its blocks are the
\* parse of that Markdown.
C19_SubmitAfterPipeline ==
  \A p \in Tasks :
    /\ pc[p] \in {"pending", "download", "upload"} =>
         submitted[p] = <<>> /\ RequestsOf(p, "submit", 0) = {}
    /\ submitted[p] # <<>> =>
         /\ Len(how[p]) = Len(Matches(p))
         /\ \A i \in 1..Len(how[p]) :
              how[p][i].kind \in {"hit", "dup", "uploaded"} \cup FailureKinds
         /\ submitted[p][1].content = result[p]
         /\ submitted[p][1].blocksContent = parseMarkdownToObject(result[p])
         /\ requests[p][Len(requests[p])] = Request("submit", 0)
         /\ \A n \in 1..(Len(requests[p]) - 1) : requests[p][n].kind # "submit"

\* C19 witness: the POST of a post is sent, not yet answered; its first
\* reference was uploaded and the download of its second failed.
C19_Witness ==
  \E p \in Tasks :
    /\ pc[p] = "submit"
    /\ Len(how[p]) = 2
    /\ how[p][1].kind = "uploaded" /\ how[p][2].kind = "downloadFailed"
    /\ requests[p] = <<Request("download", 1), Request("upload", 1),
                       Request("download", 2), Request("submit", 0)>>
    /\ submitted[p][1].content = result[p]

\* C20: every substitution keeps the title of the reference: at every moment
\* each reference of the Markdown of a call carries the title it had in the
\* input, "t" or none, whether it was a cache hit, a reuse of a file of the same
\* name, a new upload, or was left as it was.
C20_TitleKept ==
  \A p \in Tasks :
    /\ result[p] # <<>> => Len(result[p]) = Len(Markdown(p))
    /\ \A i \in 1..Len(result[p]) : result[p][i].title = Markdown(p)[i].title
    /\ \A i \in 1..Len(how[p]) :
         how[p][i].kind \in {"hit", "dup", "uploaded"} =>
           \E j \in 1..Len(result[p]) :
             result[p][j] = [alt |-> how[p][i].rec.filename, url |-> how[p][i].rec.url,
                             title |-> Markdown(p)[i].title]

\* C20 witness: two references with the title "t" were substituted by an upload
\* and by a reuse in a first call and by two cache hits in a second call, and
\* carry the title "t" with their destination URL.
C20_Witness ==
  /\ N = 2
  /\ Len(how[1]) = 2 /\ Len(how[2]) = 2
  /\ how[1][1].kind = "uploaded" /\ how[1][2].kind = "dup"
  /\ how[2][1].kind = "hit" /\ how[2][2].kind = "hit"
  /\ \A p \in {1, 2}, i \in {1, 2} :
       /\ Markdown(p)[i].title = "t"
       /\ result[p][i].title = "t"
       /\ IsDestinationUrl(result[p][i].url)

\* C21 (as claimed): when the same reference text occurs more than once in one
\* Markdown input, each occurrence's outcome is applied at its own position: an
\* occurrence that failed is left as in the input and an occurrence that was
\* resolved is replaced by its destination reference; so if an earlier
\* occurrence fails to download and a later identical one succeeds, the earlier
\* stays and the later is replaced.
C21_OutcomeAtOwnPosition ==
  \A p \in Tasks :
    PipelineDone(p) =>
      \A i \in 1..Len(how[p]) :
        (\E j \in 1..Len(how[p]) : j # i /\ Markdown(p)[j] = Markdown(p)[i]) =>
          /\ how[p][i].kind \in FailureKinds => result[p][i] = Markdown(p)[i]
          /\ how[p][i].kind \in {"hit", "dup", "uploaded"} =>
               result[p][i] = createMarkdownImage(how[p][i].rec.filename,
                                                  how[p][i].rec.url,
                                                  Markdown(p)[i].title)

\* The references of post p whose outcome is one of kinds.
CountOf(p, kinds) ==
  Cardinality({ i \in 1..Len(how[p]) : how[p][i].kind \in kinds })

\* C22: when processMarkdownImages has returned, processed is the number of
\* references matched in the input and processed = cached + uploaded + failed;
\* every reference is counted in exactly one of the three counters: cached
\* counts the cache hits and the reuses by file name, uploaded the uploads,
\* failed the failures.  While the loop waits for the network, the reference
\* it stands on is counted in processed and in no outcome counter yet.
C22_CountersAddUp ==
  \A p \in Tasks :
    /\ PipelineDone(p) =>
         /\ stats[p].processed = Len(Matches(p))
         /\ stats[p].processed = stats[p].cached + stats[p].uploaded + stats[p].failed
         /\ stats[p].cached = CountOf(p, {"hit", "dup"})
         /\ stats[p].uploaded = CountOf(p, {"uploaded"})
         /\ stats[p].failed = CountOf(p, FailureKinds)
    /\ pc[p] \in {"download", "upload"} =>
         stats[p].processed = stats[p].cached + stats[p].uploaded + stats[p].failed + 1

\* C22 witness: two pipelines have returned; one counted an upload and a reuse
\* by file name, the other a failure.
C22_Witness ==
  \E p, q \in Tasks :
    /\ PipelineDone(p) /\ PipelineDone(q)
    /\ stats[p] = [processed |-> 2, cached |-> 1, uploaded |-> 1, failed |-> 0]
    /\ how[p][2].kind = "dup"
    /\ stats[q] = [processed |-> 1, cached |-> 0, uploaded |-> 0, failed |-> 1]

\* The record that the pipeline of post p builds from the answer to the upload
\* of its reference i: the base URL joined with the relative url, and the name.
RecordOfUpload(p, i, answer) ==
  LET uploadData == UploadData(answer, p, i, UploadFilename(normalizeUrl(Matches(p)[i].url)))
  IN [url |-> <<BASE_URL>> \o uploadData.url, filename |-> uploadData.name]

\* C23: every record held in the cache is the record of an upload that was
\* sent and answered with url and name (base URL joined with the relative
\* url; the name of the answer); and a step in which references only failed
\* (download, upload or format of the answer) or hit the cache leaves every
\* entry of the cache as it was.
C23_RecordsFromUploads ==
  /\ [](\A h \in DOMAIN stores :
          \A k \in DOMAIN stores[h] :
            \E p \in Tasks :
              \E i \in 1..Len(how[p]) :
                /\ how[p][i].kind = "uploaded"
                /\ RequestsOf(p, "upload", i) # {}
                /\ \E answer \in {"ok", "renamed"} :
                     stores[h][k] = RecordOfUpload(p, i, answer)
                /\ stores[h][k].url[1] = BASE_URL)
  /\ [][\A p \in Tasks :
          ( /\ Len(how'[p]) > Len(how[p])
            /\ \A i \in (Len(how[p]) + 1)..Len(how'[p]) :
                 how'[p][i].kind \in FailureKinds \cup {"hit"}
            /\ \E i \in (Len(how[p]) + 1)..Len(how'[p]) :
                 how'[p][i].kind \in FailureKinds ) =>
              stores' = stores]_vars

\* C23 witness: a download, an upload and the format of an upload's answer have
\* failed, another upload succeeded, and the cache holds one record: that of
\* the successful upload, with the base URL.
C23_Witness ==
  /\ \E p, q \in Tasks :
       /\ \E i \in 1..Len(how[p]) : how[p][i].kind = "uploaded"
       /\ \E i \in 1..Len(how[p]) : how[p][i].kind \in {"uploadFailed", "downloadFailed"}
       /\ \E i \in 1..Len(how[q]) : how[q][i].kind = "formatFailed"
  /\ \E h \in DOMAIN stores :
       /\ Cardinality(DOMAIN stores[h]) = 1
       /\ \A k \in DOMAIN stores[h] : stores[h][k].url[1] = BASE_URL

\* C24: with several posts in flight, the block tree that parseMarkdownToObject
\* returns for a post holds exactly the blocks of that post's own Markdown, in
\* document order, and no block of another post, at the moment of the POST and
\* ever after, although every call has registered its renderer on the one
\* global marked; before the call for a post its objectOutput holds nothing.
C24_OwnBlocksOnly ==
  \A p \in Tasks :
    /\ submitted[p] = <<>> =>
         objectOutputs[p] = <<>> /\ \A n \in 1..Len(markedRenderers) : markedRenderers[n] # p
    /\ submitted[p] # <<>> =>
         /\ \E n \in 1..Len(markedRenderers) : markedRenderers[n] = p
         /\ Len(objectOutputs[p]) = Len(Matches(p))
         /\ \A i \in 1..Len(objectOutputs[p]) :
              objectOutputs[p][i].children[1].text = result[p][i]
         /\ objectOutputs[p] = parseMarkdownToObject(result[p])
         /\ submitted[p][1].blocksContent = objectOutputs[p]

\* C24 witness: two posts with different Markdown are in flight, both parsed
\* on the global marked, which holds the renderers of both calls; each
\* objectOutput holds blocks.
C24_Witness ==
  /\ N = 2
  /\ Len(markedRenderers) = 2
  /\ pc[1] = "submit" /\ pc[2] = "submit"
  /\ objectOutputs[1] # <<>> /\ objectOutputs[2] # <<>>
  /\ objectOutputs[1] # objectOutputs[2]

====
